---------------------------- MODULE Spec2Model ----------------------------
(***************************************************************************)
(* A model of immich_backup_tool.py: the ImmichBackupTool class, its       *)
(* configuration lookups (environment map, compose-file volume and         *)
(* container lookups), the command runner, and the two orchestrations      *)
(* backup() and restore() followed statement by statement.                 *)
(*                                                                         *)
(* Text is modelled as a sequence of tokens.  The tokens ":", "-", "${"    *)
(* and "}" are the characters the code splits and matches on; every other  *)
(* token is a run of characters containing none of them.                   *)
(*                                                                         *)
(* Outside the model: the process being killed, and shutil.rmtree or       *)
(* tempfile.mkdtemp themselves failing.                                    *)
(***************************************************************************)
EXTENDS Naturals, Integers, Sequences, FiniteSets, TLC

VARIABLES
    compose,          \* services of the compose file, in file order
    env_vars,         \* self.env_vars: set of <<key, value>>, keys unique
    env_file_exists,  \* does the environment file exist (load_environment)
    mode,             \* "backup" or "restore" (args.mode)
    location,         \* what restore() is pointed at (args.location)
    pc,               \* position in backup() / restore()
    exc,              \* the exception in flight, "none" when there is none
    log,              \* external effects in the order they were issued
    paths,            \* backup(): result of get_backup_paths()
    temp_backup_dir,  \* backup(): os.path.exists(temp_backup_dir)
    stop_defined,     \* backup(): is the local stop_containers bound
    stop_containers,  \* backup(): the local stop_containers
    stopped,          \* containers stopped by this run and not started since
    extract_dir,      \* restore(): local extract_dir: "unset", "None", "dir"
    extract_exists,   \* does the mkdtemp() extraction directory exist
    upload_tree,      \* the live upload-location tree
    restore_target,   \* restore_filesystem(): current_upload_location
    health            \* test_immich_health(): counters of the ping loop

vars == <<compose, env_vars, env_file_exists, mode, location, pc, exc, log, paths,
          temp_backup_dir, stop_defined, stop_containers, stopped,
          extract_dir, extract_exists, upload_tree, restore_target, health>>

----------------------------------------------------------------------------
(* Bounds and program constants *)

MaxServices == 2

max_retries == 6

retry_delay == 10

----------------------------------------------------------------------------
(* Text helpers: str.split(sep, 1), "in", re.sub *)

RECURSIVE IndexOf(_, _, _)
IndexOf(s, tok, i) ==
    IF i > Len(s) THEN 0
    ELSE IF s[i] = tok THEN i
    ELSE IndexOf(s, tok, i + 1)

Contains(s, tok) == IndexOf(s, tok, 1) # 0

\* s.split(tok, 1) for a text that contains tok
SplitFirst(s, tok) ==
    LET i == IndexOf(s, tok, 1)
    IN  <<SubSeq(s, 1, i - 1), SubSeq(s, i + 1, Len(s))>>

\* position of the first ":-" in s, 0 when there is none
RECURSIVE IndexOfColonDash(_, _)
IndexOfColonDash(s, i) ==
    IF i + 1 > Len(s) THEN 0
    ELSE IF s[i] = ":" /\ s[i + 1] = "-" THEN i
    ELSE IndexOfColonDash(s, i + 1)

----------------------------------------------------------------------------
(* Environment map *)

get_env_var(key, default) ==
    IF \E p \in env_vars : p[1] = key
    THEN (CHOOSE p \in env_vars : p[1] = key)[2]
    ELSE default

replace_var(var_expr) ==
    LET i == IndexOfColonDash(var_expr, 1)
    IN  IF i # 0
        THEN get_env_var(SubSeq(var_expr, 1, i - 1),
                         SubSeq(var_expr, i + 2, Len(var_expr)))
        ELSE get_env_var(var_expr, <<>>)

\* re.sub(r'\$\{([^}]+)\}', replace_var, path)
RECURSIVE expand_env_vars(_)
expand_env_vars(path) ==
    IF path = <<>> THEN <<>>
    ELSE LET close == IndexOf(path, "}", 1)
         IN  IF Head(path) = "${" /\ close >= 3
             THEN replace_var(SubSeq(path, 2, close - 1))
                      \o expand_env_vars(SubSeq(path, close + 1, Len(path)))
             ELSE <<Head(path)>> \o expand_env_vars(Tail(path))

----------------------------------------------------------------------------
(* Paths *)

Cwd == <<"/cwd">>

AbsoluteTokens == {"/data/lib", "/mnt/photos", "/data", "/etc/localtime",
                   "/var/lib/postgresql/data", "/cwd"}

\* os.path.abspath
abspath(p) ==
    IF p = <<>> THEN Cwd
    ELSE IF Head(p) \in AbsoluteTokens THEN p
    ELSE IF Head(p) = "./" THEN Cwd \o <<"/">> \o Tail(p)
    ELSE Cwd \o <<"/">> \o p

----------------------------------------------------------------------------
(* Compose file: services, container names, volume strings *)

\* A service is [name, container_name, volumes]; container_name = <<>> stands
\* for a service_config without the container_name key.
Service(n, c, v) == [name |-> n, container_name |-> c, volumes |-> v]

DataVolumeLiteral == <<"/data/lib", ":", "/data">>
DataVolumeVar     == <<"${", "UPLOAD_LOCATION", "}", ":", "/data">>
DataVolumeVarDef  == <<"${", "UPLOAD_LOCATION", ":", "-", "/mnt/photos", "}",
                       ":", "/data">>
LocaltimeVolume   == <<"/etc/localtime", ":", "/etc/localtime", ":", "ro">>
DbVolume          == <<"${", "DB_DATA_LOCATION", "}", ":",
                       "/var/lib/postgresql/data">>

ServerName == <<"immich", "-", "server">>

ServiceCatalogue ==
    { Service(ServerName, <<"immich_server">>, <<DataVolumeLiteral>>),
      Service(ServerName, <<"immich_server">>,
              <<DataVolumeVar, LocaltimeVolume>>),
      Service(ServerName, <<"immich_server">>, <<DataVolumeVarDef>>),
      Service(<<"database">>, <<"immich_postgres">>, <<DbVolume>>),
      Service(<<"postgres">>, <<"immich_postgres">>, <<>>),
      Service(<<"redis">>, <<>>, <<>>) }

\* service_config.get('container_name', service_name)
ContainerOf(svc) ==
    IF svc.container_name = <<>> THEN svc.name ELSE svc.container_name

\* Compose files: a mapping has distinct service names, and the container
\* runtime has distinct container names.
Topologies ==
    { t \in UNION { [1..n -> ServiceCatalogue] : n \in 0..MaxServices } :
        \A i, j \in DOMAIN t :
            i # j => /\ t[i].name # t[j].name
                     /\ ContainerOf(t[i]) # ContainerOf(t[j]) }

\* get_container_names(): the dict as its items in order
get_container_names ==
    [i \in DOMAIN compose |->
        <<compose[i].name, ContainerOf(compose[i])>>]

\* the bindings one service contributes to parse_docker_compose()'s dict
RECURSIVE ServiceBindings(_)
ServiceBindings(vols) ==
    IF vols = <<>> THEN <<>>
    ELSE LET volume == Head(vols)
         IN  (IF Contains(volume, ":")
              THEN LET parts == SplitFirst(volume, ":")
                   IN  <<[container_path |-> parts[2],
                          host_path |-> expand_env_vars(parts[1])]>>
              ELSE <<>>)
             \o ServiceBindings(Tail(vols))

RECURSIVE AllBindings(_)
AllBindings(services) ==
    IF services = <<>> THEN <<>>
    ELSE ServiceBindings(Head(services).volumes) \o AllBindings(Tail(services))

\* parse_docker_compose(): the assignments volumes[container_path] = host_path
\* in order; a later assignment to a key replaces an earlier one.
parse_docker_compose == AllBindings(compose)

HasKey(d, k) == \E i \in DOMAIN d : d[i].container_path = k

DictGet(d, k) ==
    LET last == CHOOSE i \in DOMAIN d :
                    /\ d[i].container_path = k
                    /\ \A j \in DOMAIN d : d[j].container_path = k => j <= i
    IN  d[last].host_path

\* get_backup_paths(): upload_location and db_data_location
get_backup_paths ==
    LET volumes == parse_docker_compose
        upload_location ==
            IF HasKey(volumes, <<"/data">>)
            THEN abspath(DictGet(volumes, <<"/data">>))
            ELSE abspath(get_env_var(<<"UPLOAD_LOCATION">>,
                                     <<"./", "library">>))
        db_data_location ==
            IF HasKey(volumes, <<"/var/lib/postgresql/data">>)
            THEN abspath(DictGet(volumes, <<"/var/lib/postgresql/data">>))
            ELSE abspath(get_env_var(<<"DB_DATA_LOCATION">>,
                                     <<"./", "postgres">>))
    IN  [upload_location |-> upload_location,
         db_data_location |-> db_data_location]

\* backup(): the containers to stop, from the service names
RECURSIVE StopList(_)
StopList(containers) ==
    IF containers = <<>> THEN <<>>
    ELSE (IF ~Contains(Head(containers)[1], "database")
          THEN <<Head(containers)[2]>> ELSE <<>>)
         \o StopList(Tail(containers))

\* run_command(): what the call does for an exit status
run_command(exit, check, capture_output, stdout) ==
    IF check /\ exit # 0
    THEN [raised |-> TRUE, value |-> <<>>]
    ELSE IF capture_output
         THEN [raised |-> FALSE, value |-> stdout]
         ELSE [raised |-> FALSE, value |-> <<exit = 0>>]

----------------------------------------------------------------------------
(* Inputs of a run *)

Envs ==
    { {},
      { <<<<"UPLOAD_LOCATION">>, <<"/data/lib">>>> },
      { <<<<"UPLOAD_LOCATION">>, <<"./", "photos">>>> } }

\* What restore() can be pointed at.  kind: a file ending in .tar.gz, a
\* directory, or neither.  readable: tarfile can open and extract it.
Loc(k, r, d, m, f, u) ==
    [kind |-> k, readable |-> r, has_backup_dir |-> d, has_manifest |-> m,
     has_db_file |-> f, has_upload |-> u]

NoLocation == Loc("destination", TRUE, TRUE, TRUE, TRUE, TRUE)

Locations ==
    { Loc("archive", TRUE, TRUE, TRUE, TRUE, TRUE),
      Loc("archive", FALSE, FALSE, FALSE, FALSE, FALSE),
      Loc("archive", TRUE, FALSE, FALSE, FALSE, FALSE),
      Loc("archive", TRUE, TRUE, FALSE, TRUE, TRUE),
      Loc("archive", TRUE, TRUE, TRUE, FALSE, TRUE),
      Loc("archive", TRUE, TRUE, TRUE, TRUE, FALSE),
      Loc("dir", TRUE, TRUE, TRUE, TRUE, TRUE),
      Loc("dir", TRUE, TRUE, FALSE, TRUE, TRUE),
      Loc("dir", TRUE, TRUE, TRUE, TRUE, FALSE),
      Loc("other", FALSE, FALSE, FALSE, FALSE, FALSE) }

ExitCodes == {0, 1}

Ev(op, arg, ok) == [op |-> op, arg |-> arg, ok |-> ok]

Health0 ==
    [container |-> 1, warnings |-> 0, attempt |-> 1, attempts |-> 0,
     waits |-> 0, failures |-> 0, non200 |-> 0, api_ok |-> FALSE,
     success_at |-> 0, final_warning |-> FALSE]

NoPaths == [upload_location |-> <<>>, db_data_location |-> <<>>]

Init ==
    /\ compose \in Topologies
    /\ \/ env_file_exists = TRUE /\ env_vars \in Envs
       \/ env_file_exists = FALSE /\ env_vars = {}
    /\ pc = "main"
    /\ \/ /\ mode = "backup"
          /\ location = NoLocation
          /\ upload_tree = "live"
       \/ /\ mode = "restore"
          /\ location \in Locations
          /\ upload_tree \in {"live", "absent"}
    /\ exc = "none"
    /\ log = <<>>
    /\ paths = NoPaths
    /\ temp_backup_dir = FALSE
    /\ stop_defined = FALSE
    /\ stop_containers = <<>>
    /\ stopped = {}
    /\ extract_dir = "unset"
    /\ extract_exists = FALSE
    /\ restore_target = <<>>
    /\ health = Health0

Range(s) == { s[i] : i \in DOMAIN s }

inputs == <<compose, env_vars, env_file_exists, mode, location>>

restoreVars == <<extract_dir, extract_exists, upload_tree, restore_target,
                 health>>

----------------------------------------------------------------------------
(* main(): the constructor, then backup() or restore() *)

\* tool = ImmichBackupTool(...): load_environment() raises when the
\* environment file is missing, and main() exits without calling anything
MainConstruct ==
    /\ pc = "main"
    /\ IF env_file_exists
       THEN /\ pc' = IF mode = "backup" THEN "b_check" ELSE "r_dispatch"
            /\ exc' = exc
       ELSE /\ pc' = "done"
            /\ exc' = "ConfigNotFound"
    /\ UNCHANGED <<inputs, log, paths, temp_backup_dir, stop_defined,
                   stop_containers, stopped, restoreVars>>

----------------------------------------------------------------------------
(* backup() *)

\* check_docker_compose()
BackupCheck ==
    /\ pc = "b_check"
    /\ \E outcome \in {"ok", "no_compose_file", "no_containers"} :
          IF outcome = "ok"
          THEN /\ pc' = "b_paths"
               /\ exc' = exc
          ELSE /\ pc' = "done"
               /\ exc' = IF outcome = "no_compose_file"
                         THEN "ConfigNotFound" ELSE "EnvironmentNotReady"
    /\ UNCHANGED <<inputs, log, paths, temp_backup_dir, stop_defined,
                   stop_containers, stopped, restoreVars>>

\* paths = self.get_backup_paths()
BackupGetPaths ==
    /\ pc = "b_paths"
    /\ \E outcome \in {"ok", "no_compose_file", "yaml_error"} :
          IF outcome = "ok"
          THEN /\ pc' = "b_makedirs"
               /\ paths' = get_backup_paths
               /\ exc' = exc
          ELSE /\ pc' = "done"
               /\ paths' = paths
               /\ exc' = IF outcome = "no_compose_file"
                         THEN "ConfigNotFound" ELSE "ConfigParseError"
    /\ UNCHANGED <<inputs, log, temp_backup_dir, stop_defined,
                   stop_containers, stopped, restoreVars>>

\* os.makedirs(temp_backup_dir, exist_ok=True);
\* os.makedirs(backup_location, exist_ok=True)
\* Both precede the try block: a failure of either leaves backup() at once.
\* When the first fails, the temporary path is absent (a parent is not a
\* directory, or not writable) or is taken by something that is no directory.
BackupMakeDirs ==
    /\ pc = "b_makedirs"
    /\ \E outcome \in {"ok", "temp_fails", "dest_fails"} :
          IF outcome = "temp_fails"
          THEN /\ log' = log \o <<Ev("makedirs_temp", <<>>, FALSE)>>
               /\ temp_backup_dir' \in BOOLEAN
               /\ pc' = "done"
               /\ exc' = "OSError"
          ELSE /\ log' = log \o <<Ev("makedirs_temp", <<>>, TRUE),
                                  Ev("makedirs_dest", <<>>,
                                     outcome = "ok")>>
               /\ temp_backup_dir' = TRUE
               /\ IF outcome = "ok"
                  THEN pc' = "b_names" /\ exc' = exc
                  ELSE pc' = "done" /\ exc' = "OSError"
    /\ UNCHANGED <<inputs, paths, stop_defined, stop_containers, stopped,
                   restoreVars>>

\* The statements of the try block after stop_containers is computed, in
\* program order.
BackupBody == <<"b_stop", "b_dump", "b_copy", "b_manifest", "b_archive">>

\* AfterStep with the file copy taken ahead of the database dump
AfterStepCopyFirst(step) ==
    IF step = "b_stop" THEN "b_copy"
    ELSE IF step = "b_copy" THEN "b_dump"
    ELSE IF step = "b_dump" THEN "b_manifest"
    ELSE IF step = "b_manifest" THEN "b_archive"
    ELSE "b_finally"

\* where control goes when a statement of the try block completes
AfterStep(step) ==
    LET i == CHOOSE k \in DOMAIN BackupBody : BackupBody[k] = step
    IN  IF i < Len(BackupBody) THEN BackupBody[i + 1] ELSE "b_finally"

\* containers = self.get_container_names(); stop_containers = [...]
BackupContainerNames ==
    /\ pc = "b_names"
    /\ \E outcome \in {"ok", "no_compose_file", "yaml_error"} :
          IF outcome = "ok"
          THEN /\ stop_defined' = TRUE
               /\ stop_containers' = StopList(get_container_names)
               /\ pc' = BackupBody[1]
               /\ exc' = exc
          ELSE /\ UNCHANGED <<stop_defined, stop_containers>>
               /\ pc' = "b_finally"
               /\ exc' = IF outcome = "no_compose_file"
                         THEN "ConfigNotFound" ELSE "ConfigParseError"
    /\ UNCHANGED <<inputs, log, paths, temp_backup_dir, stopped, restoreVars>>

\* if stop_containers: self.run_command("docker stop ...")
BackupStop ==
    /\ pc = "b_stop"
    /\ IF stop_containers = <<>>
       THEN /\ pc' = AfterStep("b_stop")
            /\ UNCHANGED <<exc, log, stopped>>
       ELSE \E exit \in ExitCodes :
               LET r == run_command(exit, TRUE, FALSE, <<>>)
               IN  /\ log' = Append(log, Ev("docker_stop", stop_containers,
                                            exit = 0))
                   /\ IF exit = 0
                      THEN stopped' = Range(stop_containers)
                      ELSE stopped' \in SUBSET Range(stop_containers)
                   /\ IF r.raised
                      THEN pc' = "b_finally" /\ exc' = "CommandFailed"
                      ELSE pc' = AfterStep("b_stop") /\ exc' = exc
    /\ UNCHANGED <<inputs, paths, temp_backup_dir, stop_defined,
                   stop_containers, restoreVars>>

\* create_database_backup(): the exception it ends with for an exit status of
\* the dump pipeline, "none" when it returns
create_database_backup(exit) ==
    LET r == run_command(exit, TRUE, FALSE, <<>>)
    IN  IF r.raised THEN "CommandFailed"
        ELSE IF ~r.value[1] THEN "DatabaseBackupFailed"
        ELSE "none"

\* db_backup_file = self.create_database_backup(temp_backup_dir)
BackupDump ==
    /\ pc = "b_dump"
    /\ \E exit \in ExitCodes :
          LET e == create_database_backup(exit)
          IN  /\ log' = Append(log, Ev("pg_dumpall", <<>>, exit = 0))
              /\ IF e = "none"
                 THEN pc' = AfterStep("b_dump") /\ exc' = exc
                 ELSE pc' = "b_finally" /\ exc' = e
    /\ UNCHANGED <<inputs, paths, temp_backup_dir, stop_defined,
                   stop_containers, stopped, restoreVars>>

\* fs_backup_dir = self.backup_filesystem(temp_backup_dir, paths)
BackupFilesystem ==
    /\ pc = "b_copy"
    /\ \E ok \in BOOLEAN :
          /\ log' = Append(log, Ev("copytree_backup", paths.upload_location,
                                   ok))
          /\ IF ok
             THEN pc' = AfterStep("b_copy") /\ exc' = exc
             ELSE pc' = "b_finally" /\ exc' = "CopyFailed"
    /\ UNCHANGED <<inputs, paths, temp_backup_dir, stop_defined,
                   stop_containers, stopped, restoreVars>>

\* self.create_backup_manifest(...)
BackupManifest ==
    /\ pc = "b_manifest"
    /\ \E ok \in BOOLEAN :
          /\ log' = Append(log, Ev("write_manifest", <<>>, ok))
          /\ IF ok
             THEN pc' = AfterStep("b_manifest") /\ exc' = exc
             ELSE pc' = "b_finally" /\ exc' = "OSError"
    /\ UNCHANGED <<inputs, paths, temp_backup_dir, stop_defined,
                   stop_containers, stopped, restoreVars>>

\* with tarfile.open(archive_path, "w:gz") as tar: tar.add(...)
BackupArchive ==
    /\ pc = "b_archive"
    /\ \E ok \in BOOLEAN :
          /\ log' = Append(log, Ev("tar_create", <<>>, ok))
          /\ IF ok
             THEN pc' = AfterStep("b_archive") /\ exc' = exc
             ELSE pc' = "b_finally" /\ exc' = "OSError"
    /\ UNCHANGED <<inputs, paths, temp_backup_dir, stop_defined,
                   stop_containers, stopped, restoreVars>>

\* finally: if 'stop_containers' in locals() and stop_containers:
\*              self.run_command("docker start ...")
BackupResume ==
    /\ pc = "b_finally"
    /\ IF stop_defined /\ stop_containers # <<>>
       THEN \E exit \in ExitCodes :
               LET r == run_command(exit, TRUE, FALSE, <<>>)
               IN  /\ log' = Append(log, Ev("docker_start", stop_containers,
                                            exit = 0))
                   /\ IF exit = 0
                      THEN stopped' = {}
                      ELSE stopped' \in SUBSET stopped
                   /\ IF r.raised
                      THEN pc' = "done" /\ exc' = "CommandFailed"
                      ELSE pc' = "b_cleanup" /\ exc' = exc
       ELSE /\ pc' = "b_cleanup"
            /\ UNCHANGED <<exc, log, stopped>>
    /\ UNCHANGED <<inputs, paths, temp_backup_dir, stop_defined,
                   stop_containers, restoreVars>>

\* finally: if os.path.exists(temp_backup_dir): shutil.rmtree(temp_backup_dir)
BackupCleanup ==
    /\ pc = "b_cleanup"
    /\ IF temp_backup_dir
       THEN /\ temp_backup_dir' = FALSE
            /\ log' = Append(log, Ev("rmtree_temp", <<>>, TRUE))
       ELSE UNCHANGED <<temp_backup_dir, log>>
    /\ pc' = "done"
    /\ UNCHANGED <<inputs, exc, paths, stop_defined, stop_containers, stopped,
                   restoreVars>>

Backup ==
    \/ BackupCheck
    \/ BackupGetPaths
    \/ BackupMakeDirs
    \/ BackupContainerNames
    \/ BackupStop
    \/ BackupDump
    \/ BackupFilesystem
    \/ BackupManifest
    \/ BackupArchive
    \/ BackupResume
    \/ BackupCleanup

----------------------------------------------------------------------------
(* restore() *)

backupVars == <<paths, temp_backup_dir, stop_defined, stop_containers>>

\* restore(): the directory branch's manifest check
DirectoryHasManifest(loc) == loc.has_manifest

\* restore(): archive file, directory, or neither
RestoreDispatch ==
    /\ pc = "r_dispatch"
    /\ IF location.kind = "archive"
       THEN /\ pc' = "r_extract"
            /\ UNCHANGED <<exc, extract_dir>>
       ELSE IF location.kind = "dir"
       THEN /\ extract_dir' = "None"
            /\ IF DirectoryHasManifest(location)
               THEN pc' = "r_db_open" /\ exc' = exc
               ELSE pc' = "done" /\ exc' = "InvalidBackup"
       ELSE /\ pc' = "done"
            /\ exc' = "BackupNotFound"
            /\ UNCHANGED extract_dir
    /\ UNCHANGED <<inputs, log, backupVars, stopped, extract_exists,
                   upload_tree, restore_target, health>>

\* extract_backup without its manifest validation
extract_backup_NoManifestCheck(loc) ==
    IF ~loc.readable
    THEN [exc |-> "ArchiveReadError", removed |-> FALSE]
    ELSE IF ~loc.has_backup_dir
    THEN [exc |-> "InvalidArchive", removed |-> TRUE]
    ELSE [exc |-> "none", removed |-> FALSE]

\* extract_backup(): how it ends for an archive: the exception it raises
\* ("none" when it returns) and whether it removed the directory it made
extract_backup(loc) ==
    IF ~loc.readable
    THEN [exc |-> "ArchiveReadError", removed |-> FALSE]
    ELSE IF ~loc.has_backup_dir
    THEN [exc |-> "InvalidArchive", removed |-> TRUE]
    ELSE IF ~loc.has_manifest
    THEN [exc |-> "InvalidArchive", removed |-> TRUE]
    ELSE [exc |-> "none", removed |-> FALSE]

\* backup_dir, extract_dir = self.extract_backup(backup_location)
RestoreExtract ==
    /\ pc = "r_extract"
    /\ LET r == extract_backup(location)
       IN  /\ log' = log \o <<Ev("mkdtemp", <<>>, TRUE),
                              Ev("tar_extract", <<>>, location.readable)>>
                         \o (IF r.removed
                             THEN <<Ev("rmtree_extract", <<>>, TRUE)>>
                             ELSE <<>>)
           /\ extract_exists' = ~r.removed
           /\ IF r.exc = "none"
              THEN /\ extract_dir' = "dir"
                   /\ pc' = "r_db_open"
                   /\ exc' = exc
              ELSE /\ extract_dir' = extract_dir
                   /\ pc' = "done"
                   /\ exc' = r.exc
    /\ UNCHANGED <<inputs, backupVars, stopped, upload_tree, restore_target,
                   health>>

\* containers.get('database', 'immich_postgres')
PostgresContainer ==
    LET containers == get_container_names
    IN  IF \E i \in DOMAIN containers : containers[i][1] = <<"database">>
        THEN containers[CHOOSE i \in DOMAIN containers :
                            containers[i][1] = <<"database">>][2]
        ELSE <<"immich_postgres">>

\* restore_database(): manifest, dump file, container names
RestoreDbOpen ==
    /\ pc = "r_db_open"
    /\ \E outcome \in {"ok", "bad_manifest", "no_compose_file",
                         "yaml_error"} :
          IF outcome = "bad_manifest"
          THEN pc' = "r_except" /\ exc' = "ManifestError"
          ELSE IF ~location.has_db_file
          THEN pc' = "r_except" /\ exc' = "DatabaseBackupMissing"
          ELSE IF outcome = "no_compose_file"
          THEN pc' = "r_except" /\ exc' = "ConfigNotFound"
          ELSE IF outcome = "yaml_error"
          THEN pc' = "r_except" /\ exc' = "ConfigParseError"
          ELSE pc' = "r_db_down" /\ exc' = exc
    /\ UNCHANGED <<inputs, log, backupVars, stopped, restoreVars>>

\* self.run_command("docker compose down -v", check=False)
RestoreDbDown ==
    /\ pc = "r_db_down"
    /\ \E exit \in ExitCodes :
          LET r == run_command(exit, FALSE, FALSE, <<>>)
          IN  /\ log' = Append(log, Ev("compose_down", <<>>, exit = 0))
              /\ IF r.raised
                 THEN pc' = "r_except" /\ exc' = "CommandFailed"
                 ELSE pc' = "r_db_create" /\ exc' = exc
    /\ UNCHANGED <<inputs, backupVars, stopped, restoreVars>>

\* self.run_command("docker compose create")
RestoreDbCreate ==
    /\ pc = "r_db_create"
    /\ \E exit \in ExitCodes :
          LET r == run_command(exit, TRUE, FALSE, <<>>)
          IN  /\ log' = Append(log, Ev("compose_create", <<>>, exit = 0))
              /\ IF r.raised
                 THEN pc' = "r_except" /\ exc' = "CommandFailed"
                 ELSE pc' = "r_db_start" /\ exc' = exc
    /\ UNCHANGED <<inputs, backupVars, stopped, restoreVars>>

\* self.run_command(f"docker start {postgres_container}"); time.sleep(10)
RestoreDbStart ==
    /\ pc = "r_db_start"
    /\ \E exit \in ExitCodes :
          LET r == run_command(exit, TRUE, FALSE, <<>>)
          IN  /\ log' = Append(log, Ev("docker_start", <<PostgresContainer>>,
                                       exit = 0))
              /\ IF r.raised
                 THEN pc' = "r_except" /\ exc' = "CommandFailed"
                 ELSE pc' = "r_db_psql" /\ exc' = exc
    /\ UNCHANGED <<inputs, backupVars, stopped, restoreVars>>

\* restore_database(): how the restore pipeline's exit status ends it
restore_database(exit) ==
    LET r == run_command(exit, TRUE, FALSE, <<>>)
    IN  IF r.raised THEN "CommandFailed"
        ELSE IF ~r.value[1] THEN "DatabaseRestoreFailed"
        ELSE "none"

\* if not self.run_command(restore_cmd): raise RuntimeError(...)
RestoreDbPsql ==
    /\ pc = "r_db_psql"
    /\ \E exit \in ExitCodes :
          LET e == restore_database(exit)
          IN  /\ log' = Append(log, Ev("psql_restore", <<>>, exit = 0))
              /\ IF e = "none"
                 THEN pc' = "r_fs" /\ exc' = exc
                 ELSE pc' = "r_except" /\ exc' = e
    /\ UNCHANGED <<inputs, backupVars, stopped, restoreVars>>

\* restore_filesystem(): current_upload_location
current_upload_location ==
    abspath(get_env_var(<<"UPLOAD_LOCATION">>, <<"./", "library">>))

\* restore_filesystem with the existence check of the archived tree dropped
upload_backup_exists_Unchecked(loc) == TRUE

\* restore_filesystem(): os.path.exists(upload_backup)
upload_backup_exists(loc) == loc.has_upload

\* self.restore_filesystem(backup_dir)
RestoreFilesystem ==
    /\ pc = "r_fs"
    /\ \E outcome \in {"ok", "bad_manifest", "copy_failed"} :
          IF outcome = "bad_manifest"
          THEN /\ pc' = "r_except"
               /\ exc' = "ManifestError"
               /\ UNCHANGED <<log, upload_tree, restore_target>>
          ELSE IF ~upload_backup_exists(location)
          THEN /\ pc' = "r_except"
               /\ exc' = "FilesystemBackupMissing"
               /\ UNCHANGED <<log, upload_tree, restore_target>>
          ELSE /\ restore_target' = current_upload_location
               /\ log' = log
                    \o (IF upload_tree = "live"
                        THEN <<Ev("rmtree_upload", current_upload_location,
                                  TRUE)>>
                        ELSE <<>>)
                    \o <<Ev("copytree_restore", current_upload_location,
                            outcome = "ok")>>
               /\ IF outcome = "ok"
                  THEN /\ upload_tree' = "restored"
                       /\ pc' = "r_health_up"
                       /\ exc' = exc
                  ELSE \* copytree can fail before it creates anything
                       /\ upload_tree' \in {"partial", "absent"}
                       /\ pc' = "r_except"
                       /\ exc' = "CopyFailed"
    /\ UNCHANGED <<inputs, backupVars, stopped, extract_dir, extract_exists,
                   health>>

----------------------------------------------------------------------------
(* test_immich_health() *)

restoreFrame == <<inputs, backupVars, stopped, extract_dir, extract_exists,
                  upload_tree, restore_target>>

HealthContainers == <<"immich_server", "immich_postgres", "immich_redis",
                      "immich_machine_learning">>

\* self.run_command("docker compose up -d"); time.sleep(30)
HealthStartAll ==
    /\ pc = "r_health_up"
    /\ \E exit \in ExitCodes :
          LET r == run_command(exit, TRUE, FALSE, <<>>)
          IN  /\ log' = Append(log, Ev("compose_up", <<>>, exit = 0))
              /\ IF r.raised
                 THEN pc' = "r_except" /\ exc' = "CommandFailed"
                 ELSE pc' = "r_health_ps" /\ exc' = exc
    /\ UNCHANGED <<restoreFrame, health>>

\* for container in containers: result = self.run_command("docker ps ...",
\*     capture_output=True); if "Up" not in result: warning
HealthContainerStatus ==
    /\ pc = "r_health_ps"
    /\ \E exit \in ExitCodes, status \in {<<"Up">>, <<>>} :
          LET r == run_command(exit, TRUE, TRUE, status)
              last == health.container = Len(HealthContainers)
          IN  /\ log' = Append(log, Ev("docker_ps",
                                       <<HealthContainers[health.container]>>,
                                       exit = 0))
              /\ IF r.raised
                 THEN /\ pc' = "r_except"
                      /\ exc' = "CommandFailed"
                      /\ health' = health
                 ELSE /\ pc' = IF last THEN "r_health_import"
                               ELSE "r_health_ps"
                      /\ exc' = exc
                      /\ health' =
                            [health EXCEPT
                               !.container = IF last THEN @ ELSE @ + 1,
                               !.warnings = IF Contains(r.value, "Up")
                                            THEN @ ELSE @ + 1]
    /\ UNCHANGED restoreFrame

\* try: import requests ... except ImportError: warning
HealthImport ==
    /\ pc = "r_health_import"
    /\ \E importable \in BOOLEAN :
          IF importable
          THEN pc' = "r_ping" /\ health' = health
          ELSE /\ pc' = "r_success"
               /\ health' = [health EXCEPT !.warnings = @ + 1]
    /\ UNCHANGED <<restoreFrame, exc, log>>

\* ShouldWait with the comparison off by one
ShouldWaitAfterLast(attempt) == attempt <= max_retries

\* if attempt < max_retries: time.sleep(retry_delay)
ShouldWait(attempt) == attempt < max_retries

\* for attempt in range(1, max_retries + 1): does the loop run attempt
InRange(attempt) == attempt >= 1 /\ attempt < max_retries + 1

\* One iteration of the ping loop up to its wait.
HealthPing ==
    /\ pc = "r_ping"
    /\ InRange(health.attempt)
    /\ \E outcome \in {"200", "non200", "RequestException", "Exception"} :
          /\ log' = Append(log, Ev("http_get", <<>>, outcome = "200"))
          /\ IF outcome = "200"
             THEN \* break
                  /\ health' = [health EXCEPT !.attempts = @ + 1,
                                              !.api_ok = TRUE,
                                              !.success_at = health.attempt]
                  /\ pc' = "r_success"
             ELSE IF outcome = "Exception"
             THEN \* except Exception as e: warning
                  /\ health' = [health EXCEPT !.attempts = @ + 1,
                                              !.warnings = @ + 1]
                  /\ pc' = "r_success"
             ELSE /\ health' = [health EXCEPT !.attempts = @ + 1,
                                              !.failures = @ + 1,
                                              !.non200 =
                                                  IF outcome = "non200"
                                                  THEN @ + 1 ELSE @,
                                              !.warnings = @ + 1]
                  /\ pc' = IF ShouldWait(health.attempt)
                           THEN "r_ping_wait" ELSE "r_ping_next"
    /\ UNCHANGED <<restoreFrame, exc>>

\* time.sleep(retry_delay)
HealthWait ==
    /\ pc = "r_ping_wait"
    /\ log' = Append(log, Ev("sleep", <<retry_delay>>, TRUE))
    /\ health' = [health EXCEPT !.waits = @ + 1]
    /\ pc' = "r_ping_next"
    /\ UNCHANGED <<restoreFrame, exc>>

\* the for statement takes the next attempt, or runs its else clause
HealthNext ==
    /\ pc = "r_ping_next"
    /\ IF InRange(health.attempt + 1)
       THEN /\ health' = [health EXCEPT !.attempt = @ + 1]
            /\ pc' = "r_ping"
       ELSE /\ health' = [health EXCEPT !.final_warning = TRUE,
                                        !.warnings = @ + 1]
            /\ pc' = "r_success"
    /\ UNCHANGED <<restoreFrame, exc, log>>

\* print("Restore completed successfully")
RestoreSuccess ==
    /\ pc = "r_success"
    /\ pc' = "r_finally"
    /\ UNCHANGED <<restoreFrame, exc, log, health>>

\* except Exception as e: print(...); raise
RestoreExcept ==
    /\ pc = "r_except"
    /\ log' = Append(log, Ev("print_restore_failed", <<>>, TRUE))
    /\ pc' = "r_finally"
    /\ UNCHANGED <<restoreFrame, exc, health>>

\* finally: if extract_dir and os.path.exists(extract_dir): shutil.rmtree
RestoreFinally ==
    /\ pc = "r_finally"
    /\ IF extract_dir = "dir" /\ extract_exists
       THEN /\ extract_exists' = FALSE
            /\ log' = Append(log, Ev("rmtree_extract", <<>>, TRUE))
       ELSE UNCHANGED <<extract_exists, log>>
    /\ pc' = "done"
    /\ UNCHANGED <<inputs, backupVars, stopped, extract_dir, upload_tree,
                   restore_target, health, exc>>

Restore ==
    \/ RestoreDispatch
    \/ RestoreExtract
    \/ RestoreDbOpen
    \/ RestoreDbDown
    \/ RestoreDbCreate
    \/ RestoreDbStart
    \/ RestoreDbPsql
    \/ RestoreFilesystem
    \/ HealthStartAll
    \/ HealthContainerStatus
    \/ HealthImport
    \/ HealthPing
    \/ HealthWait
    \/ HealthNext
    \/ RestoreSuccess
    \/ RestoreExcept
    \/ RestoreFinally

----------------------------------------------------------------------------

Next == MainConstruct \/ Backup \/ Restore

Spec == Init /\ [][Next]_vars

----------------------------------------------------------------------------
(* Properties *)

Done == pc = "done"

HasEv(op) == \E i \in DOMAIN log : log[i].op = op

HasFailedEv(op) == \E i \in DOMAIN log : log[i].op = op /\ ~log[i].ok

HasOkEv(op) == \E i \in DOMAIN log : log[i].op = op /\ log[i].ok

\* position of the first event op, 0 when there is none
FirstEv(op) ==
    IF HasEv(op)
    THEN CHOOSE i \in DOMAIN log :
            log[i].op = op /\ \A j \in 1..(i - 1) : log[j].op # op
    ELSE 0

\* backup() has entered its try block
EnteredTry == HasOkEv("makedirs_dest")

\* every container named in a stop command is named in a later start command
ResumeIssued ==
    \A i \in DOMAIN log :
        log[i].op = "docker_stop" =>
            \E j \in DOMAIN log :
                /\ j > i
                /\ log[j].op = "docker_start"
                /\ Range(log[i].arg) \subseteq Range(log[j].arg)

\* C1: every backup() run that entered the try block ends with a resume
\* issued for every paused service and with the temporary working directory
\* gone, whatever step failed, the resume command included.
C1_BackupAlwaysCleansUp ==
    (mode = "backup" /\ Done /\ EnteredTry)
        => (ResumeIssued /\ ~temp_backup_dir)

\* C2: when the dump pipeline exits non-zero, backup() ends with
\* DatabaseBackupFailed and the paused services have been resumed.
C2_DumpFailureIsDatabaseBackupFailed ==
    (mode = "backup" /\ Done /\ HasFailedEv("pg_dumpall"))
        => (exc = "DatabaseBackupFailed" /\ ResumeIssued)

DestructiveOps == {"compose_down", "compose_create", "docker_start",
                   "psql_restore", "rmtree_upload", "copytree_restore"}

ManifestMissing ==
    /\ mode = "restore"
    /\ env_file_exists
    /\ ~location.has_manifest
    /\ \/ location.kind = "dir"
       \/ location.kind = "archive" /\ location.readable
                                    /\ location.has_backup_dir

\* C3: restore() of an archive or directory without a manifest ends with
\* InvalidArchive / InvalidBackup, and no destructive step is ever executed
\* in that run.
C3_NoManifestRejected ==
    ManifestMissing =>
        /\ \A i \in DOMAIN log : log[i].op \notin DestructiveOps
        /\ upload_tree \in {"live", "absent"}
        /\ Done => exc = (IF location.kind = "archive"
                          THEN "InvalidArchive" ELSE "InvalidBackup")
        /\ pc \in {"main", "r_dispatch", "r_extract", "done"}

C3_Witness ==
    /\ ManifestMissing
    /\ location.kind = "archive"
    /\ Done
    /\ exc = "InvalidArchive"
    /\ HasOkEv("tar_extract")

\* C4: when restore() returns or raises, the temporary extraction directory
\* it created no longer exists, on every exit path.
C4_ExtractDirRemoved ==
    (mode = "restore" /\ Done) => ~extract_exists

\* C5: once the database restore and the filesystem restore have succeeded,
\* restore() completes successfully whatever happens in the health probe.
C5_HealthProbeNeverFails ==
    (mode = "restore" /\ Done /\ HasOkEv("psql_restore")
                      /\ HasOkEv("copytree_restore"))
        => exc = "none"

InPingLoop == pc \in {"r_ping", "r_ping_wait", "r_ping_next"}

PingLoopOver == health.attempts > 0 /\ ~InPingLoop

\* C6: the ping loop makes at most six attempts, none after the first 200;
\* it waits only between two attempts; the final warning is emitted exactly
\* when all six attempts failed; and the loop never raises.
C6_PingLoop ==
    /\ health.attempts <= 6
    /\ health.api_ok =>
          /\ ~InPingLoop
          /\ health.attempts = health.success_at
          /\ health.failures = health.attempts - 1
    /\ health.waits <= health.attempts
    /\ health.waits = health.attempts =>
          \/ health.attempts = 0
          \/ pc = "r_ping" /\ health.attempts < 6
          \/ pc = "r_ping_next" /\ health.attempts < 6
    /\ PingLoopOver => health.waits = health.attempts - 1
    /\ health.final_warning => (health.failures = 6 /\ ~health.api_ok)
    /\ PingLoopOver => (health.final_warning <=> health.failures = 6)
    /\ health.attempts > 0 => exc = "none"
    /\ health.success_at = 6 =>
          (health.attempts = 6 /\ health.waits = 5 /\ ~health.final_warning)

C6_Witness ==
    /\ Done
    /\ exc = "none"
    /\ health.api_ok
    /\ health.success_at = 6
    /\ health.attempts = 6
    /\ health.non200 = 5
    /\ health.waits = 5
    /\ ~health.final_warning

\* the container the dump is taken from (docker exec -t immich_postgres)
DumpContainer == <<"immich_postgres">>

\* C7: the containers stopped by backup() are exactly those of the services
\* whose name does not indicate the database role, and the database
\* container is never among them, for every topology.
C7_DatabaseNeverStopped ==
    (mode = "backup" /\ stop_defined) =>
        /\ Range(stop_containers) =
              { ContainerOf(compose[i]) :
                  i \in { k \in DOMAIN compose :
                            ~Contains(compose[k].name, "database") } }
        /\ DumpContainer \notin Range(stop_containers)
        /\ DumpContainer \notin stopped

\* The fields of a compose short-syntax volume SOURCE:TARGET[:MODE]: a ":"
\* inside ${...} does not separate fields.
RECURSIVE VolumeFields(_, _, _)
VolumeFields(v, inBraces, cur) ==
    IF v = <<>> THEN <<cur>>
    ELSE IF Head(v) = ":" /\ ~inBraces
         THEN <<cur>> \o VolumeFields(Tail(v), FALSE, <<>>)
         ELSE VolumeFields(Tail(v),
                           IF Head(v) = "${" THEN TRUE
                           ELSE IF Head(v) = "}" THEN FALSE
                           ELSE inBraces,
                           Append(cur, Head(v)))

\* the host paths the topology binds to the upload-data container path
DeclaredDataHosts ==
    { expand_env_vars(VolumeFields(compose[i].volumes[j], FALSE, <<>>)[1]) :
        <<i, j>> \in
            { ij \in (DOMAIN compose) \X (1..2) :
                /\ ij[2] \in DOMAIN compose[ij[1]].volumes
                /\ LET f == VolumeFields(compose[ij[1]].volumes[ij[2]],
                                         FALSE, <<>>)
                   IN  Len(f) >= 2 /\ f[2] = <<"/data">> } }

\* C8: when the topology declares a binding for /data, the resolved upload
\* location is that binding's host path whatever UPLOAD_LOCATION is; the
\* configuration value or its default is used only without such a binding.
C8_TopologyBindingWins ==
    (mode = "backup" /\ paths # NoPaths) =>
        IF DeclaredDataHosts # {}
        THEN paths.upload_location \in { abspath(h) : h \in DeclaredDataHosts }
        ELSE paths.upload_location =
                abspath(get_env_var(<<"UPLOAD_LOCATION">>,
                                    <<"./", "library">>))

\* C9: when the stop command exits non-zero, backup() does not abort but
\* goes on to the database dump.
C9_StopIsBestEffort ==
    (mode = "backup" /\ Done /\ HasFailedEv("docker_stop"))
        => HasEv("pg_dumpall")

\* C10: in every backup() run the stop precedes the dump, the dump the copy,
\* the manifest the archive, the services stay paused from the dump to the
\* archive, and no resume is issued before the archive step has finished or
\* a step has failed.
C10_BackupOrder ==
    mode = "backup" =>
        /\ (HasEv("pg_dumpall") /\ stop_containers # <<>>) =>
              /\ HasOkEv("docker_stop")
              /\ FirstEv("docker_stop") < FirstEv("pg_dumpall")
        /\ HasEv("copytree_backup") =>
              /\ HasOkEv("pg_dumpall")
              /\ FirstEv("pg_dumpall") < FirstEv("copytree_backup")
        /\ HasEv("tar_create") =>
              /\ HasOkEv("copytree_backup")
              /\ HasOkEv("write_manifest")
              /\ FirstEv("copytree_backup") < FirstEv("write_manifest")
              /\ FirstEv("write_manifest") < FirstEv("tar_create")
        /\ pc \in {"b_dump", "b_copy", "b_manifest", "b_archive"} =>
              /\ stopped = Range(stop_containers)
              /\ ~HasEv("docker_start")
        /\ HasEv("docker_start") =>
              \E j \in 1..(FirstEv("docker_start") - 1) :
                  log[j].op = "tar_create" \/ ~log[j].ok

C10_Witness ==
    /\ mode = "backup"
    /\ Done
    /\ exc = "none"
    /\ stop_containers # <<>>
    /\ HasOkEv("docker_stop")
    /\ HasOkEv("tar_create")
    /\ HasOkEv("docker_start")
    /\ ~temp_backup_dir

\* restore_filesystem() was entered in this finished run
FilesystemStepRan ==
    /\ mode = "restore"
    /\ Done
    /\ HasOkEv("psql_restore")

\* C11 as stated: whenever the archived upload-data subtree is absent, the
\* restore_filesystem step fails with FilesystemBackupMissing and leaves the
\* live upload-location tree as it was.
C11_MissingSubtreeAlwaysFilesystemBackupMissing ==
    (FilesystemStepRan /\ ~location.has_upload) =>
        /\ exc = "FilesystemBackupMissing"
        /\ upload_tree \in {"live", "absent"}
        /\ ~HasEv("rmtree_upload")
        /\ ~HasEv("copytree_restore")

\* restore_filesystem() has got past reading the manifest in this run
ReachedFilesystemCheck ==
    /\ mode = "restore"
    /\ Done
    /\ HasOkEv("psql_restore")
    /\ exc # "ManifestError"

\* C11 (amended): when the archived upload-data subtree is absent the live
\* upload-location tree is left as it was, whatever error ends the step, and
\* the step fails with FilesystemBackupMissing provided it could read the
\* manifest; the live tree is removed only in runs where the archived
\* subtree exists, and the copy into the same place follows the removal.
C11_MissingSubtreeLeavesLiveTree ==
    mode = "restore" =>
        /\ ~location.has_upload =>
              /\ upload_tree \in {"live", "absent"}
              /\ ~HasEv("rmtree_upload")
              /\ ~HasEv("copytree_restore")
              /\ ReachedFilesystemCheck => exc = "FilesystemBackupMissing"
        /\ \A i \in DOMAIN log :
              log[i].op = "rmtree_upload" =>
                  /\ location.has_upload
                  /\ i + 1 \in DOMAIN log
                  /\ log[i + 1].op = "copytree_restore"
                  /\ log[i + 1].arg = log[i].arg
        /\ upload_tree \in {"restored", "partial"} => location.has_upload

C11_Witness ==
    /\ ReachedFilesystemCheck
    /\ ~location.has_upload
    /\ exc = "FilesystemBackupMissing"
    /\ upload_tree = "live"
    /\ ~HasEv("rmtree_upload")

\* C12: with the same environment file and topology file, the host path
\* that restore_filesystem removes and repopulates is the host path that
\* backup() resolves and copies the upload tree from.
C12_RestoreTargetIsBackupSource ==
    (mode = "restore" /\ HasEv("copytree_restore")) =>
        /\ restore_target = get_backup_paths.upload_location
        /\ \A i \in DOMAIN log :
              log[i].op \in {"rmtree_upload", "copytree_restore"} =>
                  log[i].arg = get_backup_paths.upload_location

============================================================================
